---- MODULE Spec2Model ----
(***************************************************************************)
(* Companion-AI: MemoryExtractor (modules/memory.py), PersonalityEngine    *)
(* (modules/personality.py) and the Streamlit session that composes them   *)
(* (app.py).                                                               *)
(*                                                                         *)
(* A text (a Python str) is a sequence of tokens; a token stands for one   *)
(* indivisible piece of text (where Python iterates a str, a token is one  *)
(* character).  An optional value is a sequence of length <= 1.            *)
(***************************************************************************)
EXTENDS Integers, Sequences, FiniteSets, TLC

VARIABLES chat_messages, memory, selected_personality, user_question,
          shown_standard, shown_transformed, calls

vars == <<chat_messages, memory, selected_personality, user_question,
          shown_standard, shown_transformed, calls>>

\* ------------------------------------------------------------------ bounds
\* Longest preferences / facts list a provider response carries.
MaxItems == 4

\* ------------------------------------------------------- Python primitives
None == <<>>
Some(x) == <<x>>

Min(a, b) == IF a < b THEN a ELSE b

\* seq[:n]
Take(seq, n) == SubSeq(seq, 1, Min(n, Len(seq)))

\* sep.join(items), items a sequence of texts
RECURSIVE Join(_, _)
Join(sep, items) ==
    IF items = <<>> THEN <<>>
    ELSE IF Len(items) = 1 THEN items[1]
    ELSE items[1] \o sep \o Join(sep, Tail(items))

\* Values a parsed JSON document (and so a field of a memory dict) can hold:
\* None, a str, a number (its decimal text in s), a list of str, a list of
\* numbers (their decimal texts in l).
JNull == [t |-> "null", s |-> <<>>, l |-> <<>>]
JStr(text) == [t |-> "str", s |-> text, l |-> <<>>]
JNum(digits) == [t |-> "num", s |-> digits, l |-> <<>>]
JList(items) == [t |-> "list", s |-> <<>>, l |-> items]
JNumList(items) == [t |-> "numlist", s |-> <<>>, l |-> items]

\* bool(v), as `if memory.get(key):` evaluates it
Truthy(v) ==
    CASE v.t = "null" -> FALSE
      [] v.t = "str" -> v.s # <<>>
      [] v.t = "num" -> v.s # <<"0">>
      [] OTHER -> v.l # <<>>

\* The texts Python yields when it iterates v (a str yields its characters).
Elements(v) ==
    IF v.t = "str" THEN [i \in 1..Len(v.s) |-> <<v.s[i]>>] ELSE v.l

\* v[:n] raises TypeError on None and on a number.
Subscriptable(v) == v.t \in {"str", "list", "numlist"}

Slice(v, n) ==
    CASE v.t = "str" -> JStr(Take(v.s, n))
      [] v.t = "list" -> JList(Take(v.l, n))
      [] v.t = "numlist" -> JNumList(Take(v.l, n))
      [] OTHER -> v

\* `for x in v` raises TypeError on None and on a number.
Iterable(v) == v.t \in {"str", "list", "numlist"}

\* sep.join(v) raises TypeError unless v is an iterable of str.
Joinable(v) == v.t \in {"str", "list"} \/ (v.t = "numlist" /\ v.l = <<>>)

\* f"{v}": str(v)
Format(v) ==
    CASE v.t = "null" -> <<"None">>
      [] v.t = "str" -> v.s
      [] v.t = "num" -> v.s
      [] v.t = "list" ->
           <<"[">> \o Join(<<", ">>, [i \in 1..Len(v.l) |-> <<"'">> \o v.l[i] \o <<"'">>]) \o <<"]">>
      [] OTHER -> <<"[">> \o Join(<<", ">>, v.l) \o <<"]">>

\* Mutant of Get: `result.get(key) or default`, which also replaces a
\* present but falsy value.
Get_or_default(result, key, default) ==
    IF key \in result.keys /\ Truthy(result.val[key]) THEN result.val[key] ELSE default

\* dict.get(key, default) on a parsed JSON document; only a dict has .get
HasGet(result) == result.t = "dict"
Get(result, key, default) ==
    IF key \in result.keys THEN result.val[key] ELSE default

Keys == {"preferences", "emotional_patterns", "facts"}

\* --------------------------------------------------- completion provider
\* What one chain.invoke yields: the provider failed (ProviderError), its
\* output was no JSON (OutputParserException, extraction chain only), or it
\* answered: content is the message text, result the parsed JSON document.
NoDocument == [t |-> "null", keys |-> {}, val |-> [k \in Keys |-> JNull]]
Failed(detail) ==
    [kind |-> "ProviderError", detail |-> detail, content |-> <<>>, result |-> NoDocument]
Unparseable(detail) ==
    [kind |-> "OutputParserException", detail |-> detail, content |-> <<>>, result |-> NoDocument]
Answered(content) ==
    [kind |-> "ok", detail |-> <<>>, content |-> content, result |-> NoDocument]
Parsed(result) ==
    [kind |-> "ok", detail |-> <<>>, content |-> <<>>, result |-> result]

\* One outbound request to the provider.
Request(system, user, temperature) ==
    [system |-> system, user |-> user, temperature |-> temperature]

\* Temperatures in tenths.
ExtractTemperature == 3
TransformTemperature == 7
StandardTemperature == 5

\* What a call of an operation did: how it ended, the exception it raised,
\* the str or the dict it returned, the requests it issued.
Returned(text, record, requests) ==
    [outcome |-> "returned", exc |-> "", text |-> text, record |-> record, requests |-> requests]
Raised(exc, requests) ==
    [outcome |-> "raised", exc |-> exc, text |-> <<>>, record |-> None, requests |-> requests]

\* --------------------------------------------------------- MemoryExtractor
chat_history(messages) ==
    Join(<<"\n">>, [i \in 1..Len(messages) |-> <<"Message ", ToString(i), ": ">> \o messages[i]])

ExtractSystem == <<"You are an expert at analyzing human communication patterns ...">>

ExtractRequest(messages) ==
    Request(ExtractSystem,
            <<"Analyze these ", ToString(Len(messages)),
              " chat messages and extract the structured information:\n\n">>
              \o chat_history(messages)
              \o <<"\n\nReturn your analysis as a JSON object with exactly these keys: ...\n\n",
                   "<format_instructions>">>,
            ExtractTemperature)

DefaultEmotionalPatterns == JStr(<<"No clear patterns detected.">>)

FallbackMemory ==
    [preferences |-> JList(<<>>),
     emotional_patterns |-> JStr(<<"Neutral (Extraction failed, using default)">>),
     facts |-> JList(<<>>)]

\* The body of the try block: the exception it ends with ("" for none) and
\* the dict it builds.
ExtractTry(reply) ==
    IF reply.kind # "ok" THEN [exc |-> reply.kind, memory |-> FallbackMemory]
    ELSE IF ~HasGet(reply.result) THEN [exc |-> "AttributeError", memory |-> FallbackMemory]
    ELSE [exc |-> "",
          memory |-> [preferences |-> Get(reply.result, "preferences", JList(<<>>)),
                      emotional_patterns |-> Get(reply.result, "emotional_patterns", DefaultEmotionalPatterns),
                      facts |-> Get(reply.result, "facts", JList(<<>>))]]

\* Mutant of extract_memory: no except clause, the exception propagates.
extract_memory_unguarded(messages, reply) ==
    IF ExtractTry(reply).exc # ""
    THEN Raised(ExtractTry(reply).exc, <<ExtractRequest(messages)>>)
    ELSE Returned(<<>>, Some(ExtractTry(reply).memory), <<ExtractRequest(messages)>>)

extract_memory(messages, reply) ==
    LET body == ExtractTry(reply)
    IN  Returned(<<>>,
                 Some(IF body.exc # "" THEN FallbackMemory ELSE body.memory),
                 <<ExtractRequest(messages)>>)

\* The lines one list section of the summary adds.
SummaryItems(v) == [i \in 1..Len(Elements(v)) |-> <<"- ">> \o Elements(v)[i]]

\* Mutant of summary_parts: the emotional-patterns section is always emitted.
summary_parts_always_emotional(m) ==
    (IF Truthy(m.preferences)
        THEN <<<<"**User Preferences:**">>>> \o SummaryItems(m.preferences) ELSE <<>>)
    \o <<<<"\n**Emotional Patterns:** ">> \o Format(m.emotional_patterns)>>
    \o (IF Truthy(m.facts)
        THEN <<<<"\n**Key Facts:**">>>> \o SummaryItems(m.facts) ELSE <<>>)

summary_parts(m) ==
    (IF Truthy(m.preferences)
        THEN <<<<"**User Preferences:**">>>> \o SummaryItems(m.preferences) ELSE <<>>)
    \o (IF Truthy(m.emotional_patterns)
        THEN <<<<"\n**Emotional Patterns:** ">> \o Format(m.emotional_patterns)>> ELSE <<>>)
    \o (IF Truthy(m.facts)
        THEN <<<<"\n**Key Facts:**">>>> \o SummaryItems(m.facts) ELSE <<>>)

format_memory_summary(m) ==
    IF \/ (Truthy(m.preferences) /\ ~Iterable(m.preferences))
       \/ (Truthy(m.facts) /\ ~Iterable(m.facts))
    THEN Raised("TypeError", <<>>)
    ELSE Returned(IF summary_parts(m) # <<>> THEN Join(<<"\n">>, summary_parts(m))
                  ELSE <<"No memory extracted yet.">>,
                  None, <<>>)

\* ------------------------------------------------------- PersonalityEngine
PERSONALITIES ==
    [calm_mentor |->
        [name |-> "Calm Mentor",
         description |-> "Patient, step-by-step guidance with reassurance",
         traits |-> "patient, methodical, reassuring, encouraging, breaks down complex topics into simple steps"],
     witty_friend |->
        [name |-> "Witty Friend",
         description |-> "Casual, humorous, and relatable",
         traits |-> "casual, humorous, uses slang and jokes, relatable, friendly banter, light-hearted"],
     therapist_style |->
        [name |-> "Therapist-Style",
         description |-> "Empathetic, reflective, and supportive",
         traits |-> "empathetic, reflective, asks thoughtful questions, validates feelings, supportive, non-judgmental"],
     neutral |->
        [name |-> "Standard AI",
         description |-> "Neutral, professional assistant",
         traits |-> "neutral, professional, informative, straightforward"]]

\* Mutant of personality_info: an unknown key falls back to the wrong entry.
personality_info_wrong_fallback(personality) ==
    IF personality \in DOMAIN PERSONALITIES
    THEN PERSONALITIES[personality] ELSE PERSONALITIES["calm_mentor"]

personality_info(personality) ==
    IF personality \in DOMAIN PERSONALITIES
    THEN PERSONALITIES[personality] ELSE PERSONALITIES["neutral"]

\* Mutant of JoinFirst: the [:3] slice is missing.
JoinFirst_unsliced(v) == Join(<<", ">>, Elements(v))

\* memory['key'][:3] joined with ', '; raises unless the value can be
\* sliced and the slice is an iterable of str.
JoinFirst(v) == Join(<<", ">>, Elements(Slice(v, 3)))
JoinFirstRaises(v) == ~Subscriptable(v) \/ ~Joinable(Slice(v, 3))

memory_parts(m) ==
    (IF Truthy(m.preferences)
        THEN <<<<"User preferences: ">> \o JoinFirst(m.preferences)>> ELSE <<>>)
    \o (IF Truthy(m.emotional_patterns)
        THEN <<<<"Emotional patterns: ">> \o Format(m.emotional_patterns)>> ELSE <<>>)
    \o (IF Truthy(m.facts)
        THEN <<<<"Key facts: ">> \o JoinFirst(m.facts)>> ELSE <<>>)

ContextHeader == <<"\n\nUser Context (use this to personalize your response):\n">>

\* mem is the optional memory argument.
memory_context(mem) ==
    IF mem = None \/ memory_parts(mem[1]) = <<>> THEN <<>>
    ELSE ContextHeader \o Join(<<"\n">>, memory_parts(mem[1]))

memory_context_raises(mem) ==
    /\ mem # None
    /\ \/ (Truthy(mem[1].preferences) /\ JoinFirstRaises(mem[1].preferences))
       \/ (Truthy(mem[1].facts) /\ JoinFirstRaises(mem[1].facts))

TransformRequest(question, standard_response, personality, mem) ==
    LET info == personality_info(personality)
    IN  Request(<<"You are transforming a standard AI response into a ", info.name,
                  " style response.\n\nYour personality traits: ", info.traits,
                  "\n\nYour task: ... match the ", info.name, " personality ...">>,
                <<"Transform this response:\n\n**Original User Question:**\n">>
                  \o question
                  \o <<"\n\n**Standard Response:**\n">>
                  \o standard_response
                  \o <<"\n">>
                  \o memory_context(mem)
                  \o <<"\n\n**Your Task:**\nRewrite the response in the ", info.name, " style, ...">>,
                TransformTemperature)

\* Mutant of TransformInvoke: the except clause drops str(e).
TransformInvoke_no_detail(reply) ==
    IF reply.kind = "ok" THEN reply.content
    ELSE <<"Error ", "transforming response">>

\* chain.invoke inside try/except: the str the operation returns.
TransformInvoke(reply) ==
    IF reply.kind = "ok" THEN reply.content
    ELSE <<"Error ", "transforming response: ">> \o reply.detail

transform_response(question, standard_response, personality, mem, reply) ==
    IF memory_context_raises(mem) THEN Raised("TypeError", <<>>)
    ELSE Returned(TransformInvoke(reply), None,
                  <<TransformRequest(question, standard_response, personality, mem)>>)

StandardSystem ==
    <<"You are a helpful, neutral AI assistant. Provide clear, informative responses without any particular personality style.">>

StandardInvoke(reply) ==
    IF reply.kind = "ok" THEN reply.content
    ELSE <<"Error ", "generating response: ">> \o reply.detail

get_standard_response(question, reply) ==
    Returned(StandardInvoke(reply), None,
             <<Request(StandardSystem, question, StandardTemperature)>>)

\* ------------------------------------------------------------------ inputs
\* k items of pool from position o on, wrapping round.
Window(pool, o, k) == [i \in 1..k |-> pool[((o + i - 2) % Len(pool)) + 1]]

PreferencePool ==
    <<<<"dark mode">>, <<"Python">>, <<"short", " ", "answers">>, <<"tea">>, <<"vim">>, <<"mornings">>>>
FactPool ==
    <<<<"deadline Friday">>, <<"name is Sam">>, <<"backend", " ", "developer">>, <<"budget $50">>,
      <<"lives in Pune">>, <<"two kids">>>>

\* Values the provider may put under "preferences": well-shaped lists, and
\* None, numbers, a bare str, a list of numbers.
PreferenceValues ==
    { JList(Window(PreferencePool, 1, k)) : k \in 0..Min(MaxItems, Len(PreferencePool)) }
    \cup { JList(Window(PreferencePool, 4, Min(MaxItems, Len(PreferencePool)))) }
    \cup { JNull, JNum(<<"42">>), JNum(<<"0">>), JStr(<<"t", "e", "a", "s">>),
           JNumList(<<<<"1">>, <<"2">>>>) }

EmotionalValues ==
    { JStr(<<>>), JStr(<<"anxious before deadlines">>),
      JNull, JNum(<<"7">>), JList(<<<<"anxious">>, <<"tired">>>>) }

FactValues ==
    { JList(Window(FactPool, 1, k)) : k \in 0..Min(MaxItems, Len(FactPool)) }
    \cup { JNull, JNumList(<<<<"3">>>>) }

\* A JSON object holding the keys of ks; the value of an absent key is unused.
Document(ks, p, e, f) ==
    [t |-> "dict", keys |-> ks,
     val |-> [k \in Keys |-> IF k \notin ks THEN JNull
                             ELSE IF k = "preferences" THEN p
                             ELSE IF k = "emotional_patterns" THEN e ELSE f]]

Documents ==
    { Document(ks, p, e, f) : ks \in SUBSET Keys,
        p \in PreferenceValues, e \in EmotionalValues, f \in FactValues }

\* JSON documents that are no object: an array, a string, null.
NonObjects == { [t |-> k, keys |-> {}, val |-> [x \in Keys |-> JNull]] : k \in {"list", "str", "null"} }

FailureDetails == { <<"Connection error.">>, <<"Error code: 401", " - ", "invalid api key">> }

ExtractReplies ==
    { Parsed(d) : d \in Documents \cup NonObjects }
    \cup { Failed(x) : x \in FailureDetails }
    \cup { Unparseable(<<"Invalid json output">>) }

Answers == { <<"Check your logs.">>, <<"Error ", "handling needs a try block.">> }

CompletionReplies ==
    { Answered(a) : a \in Answers } \cup { Failed(x) : x \in FailureDetails }

Questions == { <<"How do I fix this bug?">>, <<"What", " ", "next?">> }

StandardResponses == { <<"Check your logs.">>, <<"Error ", "generating response: ", "Connection error.">> }

ChatLineSequences ==
    { <<>>,
      << <<"I love dark mode">> >>,
      << <<"I love dark mode">>, <<"My deadline is Friday">>, <<"I get anxious before demos">> >> }

PersonalityIds == DOMAIN PERSONALITIES \cup {"pirate", ""}

\* ------------------------------------------------------------ state machine
\* One entry of calls: an operation, its arguments, the provider's reply to
\* its request, and what the call did.
Call(op, messages, question, standard_response, personality, mem, reply, res) ==
    [op |-> op, chat_messages |-> messages, user_question |-> question,
     standard_response |-> standard_response, personality |-> personality,
     memory |-> mem, reply |-> reply,
     outcome |-> res.outcome, exc |-> res.exc, text |-> res.text,
     record |-> res.record, requests |-> res.requests]

Init ==
    /\ chat_messages = <<>>
    /\ memory = None
    /\ selected_personality = "neutral"
    /\ user_question = None
    /\ shown_standard = None
    /\ shown_transformed = None
    /\ calls = <<>>

\* ---- the operations called directly, with any arguments (SpecOps) ----
\* A caller that makes one engine call without memory, or one extraction
\* followed by one use of the record it returned (held in memory).
Fresh == calls = <<>>
Extracted == calls # <<>> /\ calls[1].op = "extract_memory"

CallExtractMemory ==
    /\ Fresh
    /\ \E messages \in ChatLineSequences, reply \in ExtractReplies :
        LET res == extract_memory(messages, reply)
        IN  /\ calls' = <<Call("extract_memory", messages, <<>>, <<>>, "", None, reply, res)>>
            /\ memory' = res.record
            /\ UNCHANGED <<chat_messages, selected_personality, user_question,
                           shown_standard, shown_transformed>>

CallFormatMemorySummary ==
    /\ Extracted
    /\ calls' = <<Call("format_memory_summary", <<>>, <<>>, <<>>, "", memory,
                       Answered(<<>>), format_memory_summary(memory[1]))>>
    /\ UNCHANGED <<chat_messages, memory, selected_personality, user_question,
                   shown_standard, shown_transformed>>

CallGetStandardResponse ==
    /\ Fresh
    /\ \E question \in Questions, reply \in CompletionReplies :
        /\ calls' = <<Call("get_standard_response", <<>>, question, <<>>, "", None, reply,
                           get_standard_response(question, reply))>>
        /\ UNCHANGED <<chat_messages, memory, selected_personality, user_question,
                       shown_standard, shown_transformed>>

CallTransformResponse ==
    /\ Fresh \/ Extracted
    /\ \E question \in Questions, standard_response \in StandardResponses,
          personality \in PersonalityIds, reply \in CompletionReplies :
        /\ calls' = <<Call("transform_response", <<>>, question, standard_response,
                           personality, memory, reply,
                           transform_response(question, standard_response, personality, memory, reply))>>
        /\ UNCHANGED <<chat_messages, memory, selected_personality, user_question,
                       shown_standard, shown_transformed>>

NextOps ==
    \/ CallExtractMemory
    \/ CallFormatMemorySummary
    \/ CallGetStandardResponse
    \/ CallTransformResponse

SpecOps == Init /\ [][NextOps]_vars

\* ---- the Streamlit session of app.py (Spec) ----
\* Every action is one script run with the API key entered (a run without it
\* stops at line 73), followed by the rerun that st.rerun() starts.

\* load_sample_chats(): the messages of data/sample_chats.json
sample_chats ==
    << <<"I love dark mode">>, <<"My deadline is Friday">>, <<"I get anxious before demos">> >>

Whitespace == {" ", "\t", "\r"}

\* str.strip()
RECURSIVE StripLeft(_)
StripLeft(text) ==
    IF text # <<>> /\ Head(text) \in Whitespace THEN StripLeft(Tail(text)) ELSE text

RECURSIVE StripRight(_)
StripRight(text) ==
    IF text # <<>> /\ text[Len(text)] \in Whitespace
    THEN StripRight(SubSeq(text, 1, Len(text) - 1)) ELSE text

Strip(text) == StripRight(StripLeft(text))

\* str.split("\n"): the pieces between the newline tokens
RECURSIVE Split(_)
Split(text) ==
    IF "\n" \notin { text[i] : i \in DOMAIN text } THEN <<text>>
    ELSE LET k == CHOOSE i \in DOMAIN text : text[i] = "\n" /\ \A j \in 1..(i - 1) : text[j] # "\n"
         IN  <<SubSeq(text, 1, k - 1)>> \o Split(SubSeq(text, k + 1, Len(text)))

\* [msg.strip() for msg in chat_input.split("\n") if msg.strip()]
RECURSIVE StrippedLines(_)
StrippedLines(pieces) ==
    IF pieces = <<>> THEN <<>>
    ELSE (IF Strip(Head(pieces)) # <<>> THEN <<Strip(Head(pieces))>> ELSE <<>>)
         \o StrippedLines(Tail(pieces))

\* What the user may have in the text area when pressing Save Messages.
ChatInputs ==
    { <<>>,
      <<" ", "I love dark mode", " ", "\n", "\n", "\t", "\n", "My deadline is Friday">>,
      <<"I prefer", " ", "tea", "\n">> }

SessionQuestions == { <<"How do I fix this bug?">> }

SessionExtractReplies ==
    { Parsed(Document(Keys, JList(Window(PreferencePool, 1, Min(MaxItems, Len(PreferencePool)))),
                      JStr(<<"anxious before deadlines">>), JList(Window(FactPool, 1, 1)))),
      Parsed(Document({"facts"}, JNull, JNull, JList(Window(FactPool, 1, 2)))),
      Parsed(Document(Keys, JNum(<<"42">>), JNull, JList(<<>>))),
      Failed(<<"Connection error.">>) }

\* Replies to a baseline request and to a transformation request.
BaselineReplies == { Answered(<<"Check your logs.">>), Answered(<<"Restart", " ", "the service.">>) }
TransformReplies == { Answered(<<"Hey, check those logs!">>), Failed(<<"Connection error.">>) }

\* The replies to the three requests of one before/after rendering; no
\* request is made while the question box is empty.
ReplyTriples(question) ==
    IF question = None THEN { <<Answered(<<>>), Answered(<<>>), Answered(<<>>)>> }
    ELSE BaselineReplies \X BaselineReplies \X TransformReplies

\* Tab 3 with a question entered: what the two columns show and the engine
\* calls made.
BeforeAfter(question, personality, mem, replies) ==
    LET first == get_standard_response(question, replies[1])
        second == get_standard_response(question, replies[2])
        third == transform_response(question, second.text, personality, mem, replies[3])
    IN  [standard |-> Some(first.text),
         transformed |-> Some(IF third.outcome = "returned" THEN third.text
                              ELSE <<"Error: ", third.exc>>),
         calls |-> << Call("get_standard_response", <<>>, question, <<>>, "", None, replies[1], first),
                      Call("get_standard_response", <<>>, question, <<>>, "", None, replies[2], second),
                      Call("transform_response", <<>>, question, second.text, personality, mem,
                           replies[3], third) >>]

Tab3(question, personality, mem, replies) ==
    IF question = None THEN [standard |-> None, transformed |-> None, calls |-> <<>>]
    ELSE BeforeAfter(question[1], personality, mem, replies)

\* The rest of a script run: tab 3 rendered from the session as it now is;
\* before holds the calls the run made earlier.
Render(before, question, personality, mem, replies) ==
    LET tab == Tab3(question, personality, mem, replies)
    IN  /\ shown_standard' = tab.standard
        /\ shown_transformed' = tab.transformed
        /\ calls' = before \o tab.calls

EnterQuestion ==
    \E question \in {None} \cup { Some(q) : q \in SessionQuestions } :
        \E replies \in ReplyTriples(question) :
            /\ question # user_question
            /\ user_question' = question
            /\ UNCHANGED <<chat_messages, memory, selected_personality>>
            /\ Render(<<>>, question, selected_personality, memory, replies)

SelectPersonality ==
    \E personality \in DOMAIN PERSONALITIES, replies \in ReplyTriples(user_question) :
        /\ personality # selected_personality
        /\ selected_personality' = personality
        /\ UNCHANGED <<chat_messages, memory, user_question>>
        /\ Render(<<>>, user_question, personality, memory, replies)

\* Mutant of ExtractMemoryButton: the new record is merged into the stored
\* one, an empty field of the new record keeping the stored value.
ExtractMemoryButton_merge ==
    \E reply \in SessionExtractReplies, replies \in ReplyTriples(user_question) :
        IF chat_messages # <<>>
        THEN LET res == extract_memory(chat_messages, reply)
                 new == res.record[1]
                 merged == IF memory = None THEN res.record
                           ELSE Some([k \in Keys |-> IF Truthy(new[k]) THEN new[k] ELSE memory[1][k]])
             IN  /\ memory' = merged
                 /\ UNCHANGED <<chat_messages, selected_personality, user_question>>
                 /\ Render(<<Call("extract_memory", chat_messages, <<>>, <<>>, "", None, reply, res)>>,
                           user_question, selected_personality, merged, replies)
        ELSE /\ UNCHANGED <<chat_messages, memory, selected_personality, user_question>>
             /\ Render(<<>>, user_question, selected_personality, memory, replies)

ExtractMemoryButton ==
    \E reply \in SessionExtractReplies, replies \in ReplyTriples(user_question) :
        IF chat_messages # <<>>
        THEN LET res == extract_memory(chat_messages, reply)
             IN  /\ memory' = res.record
                 /\ UNCHANGED <<chat_messages, selected_personality, user_question>>
                 /\ Render(<<Call("extract_memory", chat_messages, <<>>, <<>>, "", None, reply, res)>>,
                           user_question, selected_personality, res.record, replies)
        ELSE /\ UNCHANGED <<chat_messages, memory, selected_personality, user_question>>
             /\ Render(<<>>, user_question, selected_personality, memory, replies)

LoadSampleChats ==
    \E replies \in ReplyTriples(user_question) :
        /\ sample_chats # <<>>
        /\ chat_messages' = sample_chats
        /\ UNCHANGED <<memory, selected_personality, user_question>>
        /\ Render(<<>>, user_question, selected_personality, memory, replies)

ClearMessages ==
    \E replies \in ReplyTriples(user_question) :
        /\ chat_messages' = <<>>
        /\ memory' = None
        /\ UNCHANGED <<selected_personality, user_question>>
        /\ Render(<<>>, user_question, selected_personality, None, replies)

SaveMessages ==
    \E chat_input \in ChatInputs, replies \in ReplyTriples(user_question) :
        /\ chat_messages' = StrippedLines(Split(chat_input))
        /\ UNCHANGED <<memory, selected_personality, user_question>>
        /\ Render(<<>>, user_question, selected_personality, memory, replies)

Next ==
    \/ EnterQuestion
    \/ SelectPersonality
    \/ ExtractMemoryButton
    \/ LoadSampleChats
    \/ ClearMessages
    \/ SaveMessages

Spec == Init /\ [][Next]_vars

\* ================================================================== claims
Range(seq) == { seq[i] : i \in DOMAIN seq }

\* part occurs in text as a contiguous run of tokens
Contains(text, part) ==
    \E k \in 1..(Len(text) - Len(part) + 1) : SubSeq(text, k, k + Len(part) - 1) = part

\* The position of the first token of text equal to tok.
IndexOf(text, tok) == CHOOSE i \in DOMAIN text : text[i] = tok /\ \A j \in 1..(i - 1) : text[j] # tok

\* The MemoryRecord shape: a list of str, a str, a list of str.
WellShaped(r) ==
    r.preferences.t = "list" /\ r.emotional_patterns.t = "str" /\ r.facts.t = "list"

CallsOf(op) == { i \in DOMAIN calls : calls[i].op = op }

\* C1: for every provider response that parses as JSON, the record that
\* extract_memory returns has its three fields present, non-null and of the
\* MemoryRecord shape (absent, null and wrong-shaped values are replaced by
\* the key's default).
C1_RecordAlwaysWellShaped ==
    \A i \in CallsOf("extract_memory") :
        calls[i].reply.kind = "ok" =>
            /\ calls[i].outcome = "returned"
            /\ calls[i].record # None
            /\ WellShaped(calls[i].record[1])

\* C2: when the provider call fails or its response is no JSON at all,
\* extract_memory raises nothing and returns exactly the record
\* {preferences: [], emotional_patterns: "Neutral (Extraction failed, using
\* default)", facts: []}.
C2_FailureYieldsFallbackRecord ==
    \A i \in CallsOf("extract_memory") :
        calls[i].reply.kind \in {"ProviderError", "OutputParserException"} =>
            /\ calls[i].outcome = "returned"
            /\ calls[i].exc = ""
            /\ calls[i].record =
                 << [preferences |-> [t |-> "list", s |-> <<>>, l |-> <<>>],
                     emotional_patterns |->
                         [t |-> "str", s |-> <<"Neutral (Extraction failed, using default)">>, l |-> <<>>],
                     facts |-> [t |-> "list", s |-> <<>>, l |-> <<>>]] >>

C2_Witness ==
    \E i \in CallsOf("extract_memory") :
        calls[i].reply.kind = "ProviderError" /\ calls[i].outcome = "returned"

\* The record C3 expects of a JSON object: a present key keeps the
\* response's value, a missing key gets its default; sentinel is the default
\* of emotional_patterns.
PassThrough(doc, sentinel) ==
    [preferences |-> IF "preferences" \in doc.keys THEN doc.val["preferences"]
                     ELSE [t |-> "list", s |-> <<>>, l |-> <<>>],
     emotional_patterns |-> IF "emotional_patterns" \in doc.keys THEN doc.val["emotional_patterns"]
                            ELSE [t |-> "str", s |-> <<sentinel>>, l |-> <<>>],
     facts |-> IF "facts" \in doc.keys THEN doc.val["facts"]
               ELSE [t |-> "list", s |-> <<>>, l |-> <<>>]]

\* C3 as claimed: for every JSON object response and every subset of missing
\* keys, each present key has exactly the response's value and each missing
\* key its default, [] for preferences and facts and the sentinel "Neutral
\* (Extraction failed, using default)" for emotional_patterns.
C3_Original_MissingKeysGetFailureSentinel ==
    \A i \in CallsOf("extract_memory") :
        (calls[i].reply.kind = "ok" /\ calls[i].reply.result.t = "dict") =>
            calls[i].record =
                <<PassThrough(calls[i].reply.result, "Neutral (Extraction failed, using default)")>>

\* C3 as amended: the same, the default of a missing emotional_patterns
\* being the string "No clear patterns detected.".
C3_MissingKeysGetDefaults ==
    \A i \in CallsOf("extract_memory") :
        (calls[i].reply.kind = "ok" /\ calls[i].reply.result.t = "dict") =>
            calls[i].record = <<PassThrough(calls[i].reply.result, "No clear patterns detected.")>>

C3_Witness ==
    \E i \in CallsOf("extract_memory") :
        /\ calls[i].reply.kind = "ok" /\ calls[i].reply.result.t = "dict"
        /\ calls[i].reply.result.keys = {"preferences"}
        /\ calls[i].reply.result.val["preferences"].t = "null"
        /\ calls[i].outcome = "returned"

\* C4: when the provider call fails, get_standard_response and
\* transform_response return, without raising, a string that starts with
\* "Error " and contains the failure's text ("Error generating response:
\* <details>", "Error transforming response: <details>").
C4_FailureYieldsErrorString ==
    \A i \in CallsOf("get_standard_response") \cup CallsOf("transform_response") :
        (calls[i].requests # <<>> /\ calls[i].reply.kind # "ok") =>
            /\ calls[i].outcome = "returned"
            /\ calls[i].text # <<>> /\ calls[i].text[1] = "Error "
            /\ Contains(calls[i].text, calls[i].reply.detail)
            /\ calls[i].text =
                 <<"Error ", IF calls[i].op = "get_standard_response"
                             THEN "generating response: " ELSE "transforming response: ">>
                 \o calls[i].reply.detail

C4_Witness ==
    /\ \E i \in CallsOf("transform_response") :
        /\ calls[i].reply.kind = "ProviderError" /\ calls[i].reply.detail # <<>>
        /\ calls[i].requests # <<>> /\ calls[i].outcome = "returned"

\* C5: transform_response with a personality that is no catalog key builds
\* the request of the same call with "neutral" (display name "Standard AI"
\* and its traits, same user content), ends as that call ends, and never
\* fails on the unknown key.
C5_UnknownPersonalityIsNeutral ==
    \A i \in CallsOf("transform_response") :
        calls[i].personality \notin {"neutral", "calm_mentor", "witty_friend", "therapist_style"} =>
            LET neutral == transform_response(calls[i].user_question, calls[i].standard_response,
                                              "neutral", calls[i].memory, calls[i].reply)
            IN  /\ calls[i].exc # "KeyError"
                /\ calls[i].outcome = neutral.outcome
                /\ calls[i].text = neutral.text
                /\ calls[i].requests = neutral.requests
                /\ \A k \in DOMAIN calls[i].requests :
                     /\ calls[i].requests[k].system[2] = "Standard AI"
                     /\ calls[i].requests[k].system[4] = "neutral, professional, informative, straightforward"

C5_Witness ==
    \E i \in CallsOf("transform_response") :
        /\ calls[i].personality = "pirate"
        /\ calls[i].memory # None
        /\ Len(calls[i].requests) = 1

\* ", ".join of a sequence of texts, built from the last item backwards.
RECURSIVE CommaJoined(_)
CommaJoined(items) ==
    IF Len(items) = 0 THEN <<>>
    ELSE IF Len(items) = 1 THEN items[1]
    ELSE CommaJoined(SubSeq(items, 1, Len(items) - 1)) \o <<", ">> \o items[Len(items)]

FirstThree(items) == SubSeq(items, 1, IF Len(items) < 3 THEN Len(items) ELSE 3)

\* The memory block C6 expects for a well-shaped record.
ExpectedBlock(mem) ==
    IF mem = None THEN <<>>
    ELSE LET r == mem[1]
             p == IF r.preferences.l # <<>>
                  THEN <<"\n", "User preferences: ">> \o CommaJoined(FirstThree(r.preferences.l)) ELSE <<>>
             e == IF r.emotional_patterns.s # <<>>
                  THEN <<"\n", "Emotional patterns: ">> \o r.emotional_patterns.s ELSE <<>>
             f == IF r.facts.l # <<>>
                  THEN <<"\n", "Key facts: ">> \o CommaJoined(FirstThree(r.facts.l)) ELSE <<>>
         IN  IF p \o e \o f = <<>> THEN <<>>
             ELSE <<"\n\nUser Context (use this to personalize your response):\n">> \o Tail(p \o e \o f)

\* C6: the memory block embedded in the request is empty when memory is None
\* or all three fields are empty; otherwise it is the header followed by the
\* lines of the non-empty fields only, in the order preferences (first
\* min(3, n), original order, comma-joined), emotional_patterns, facts (first
\* min(3, n), comma-joined); no preference or fact beyond the third appears.
C6_MemoryBlock ==
    \A i \in CallsOf("transform_response") :
        (calls[i].memory = None \/ WellShaped(calls[i].memory[1])) =>
            /\ Len(calls[i].requests) = 1
            /\ calls[i].requests[1].user =
                 <<"Transform this response:\n\n**Original User Question:**\n">>
                 \o calls[i].user_question
                 \o <<"\n\n**Standard Response:**\n">>
                 \o calls[i].standard_response
                 \o <<"\n">>
                 \o ExpectedBlock(calls[i].memory)
                 \o <<"\n\n**Your Task:**\nRewrite the response in the ",
                      calls[i].requests[1].system[2], " style, ...">>
            /\ calls[i].memory # None =>
                 /\ \A k \in 4..Len(calls[i].memory[1].preferences.l) :
                      ~Contains(calls[i].requests[1].user, calls[i].memory[1].preferences.l[k])
                 /\ \A k \in 4..Len(calls[i].memory[1].facts.l) :
                      ~Contains(calls[i].requests[1].user, calls[i].memory[1].facts.l[k])

C6_Witness ==
    \E i \in CallsOf("transform_response") :
        /\ calls[i].memory # None
        /\ WellShaped(calls[i].memory[1])
        /\ Len(calls[i].memory[1].preferences.l) >= 4
        /\ calls[i].memory[1].emotional_patterns.s = <<>>
        /\ Len(calls[i].memory[1].facts.l) = 2
        /\ Len(calls[i].requests) = 1

\* C7: format_memory_summary emits the preferences, emotional-patterns and
\* facts sections each exactly when that field is non-empty, in that order,
\* returns "No memory extracted yet." exactly when all three are empty, never
\* fails on a valid MemoryRecord and changes nothing.
C7_SummarySections ==
    \A i \in CallsOf("format_memory_summary") :
        WellShaped(calls[i].memory[1]) =>
            LET r == calls[i].memory[1]
                text == calls[i].text
                hasP == "**User Preferences:**" \in Range(text)
                hasE == "\n**Emotional Patterns:** " \in Range(text)
                hasF == "\n**Key Facts:**" \in Range(text)
            IN  /\ calls[i].outcome = "returned"
                /\ hasP <=> r.preferences.l # <<>>
                /\ hasE <=> r.emotional_patterns.s # <<>>
                /\ hasF <=> r.facts.l # <<>>
                /\ (hasP /\ hasE) => IndexOf(text, "**User Preferences:**") < IndexOf(text, "\n**Emotional Patterns:** ")
                /\ (hasP /\ hasF) => IndexOf(text, "**User Preferences:**") < IndexOf(text, "\n**Key Facts:**")
                /\ (hasE /\ hasF) => IndexOf(text, "\n**Emotional Patterns:** ") < IndexOf(text, "\n**Key Facts:**")
                /\ (text = <<"No memory extracted yet.">>)
                     <=> (r.preferences.l = <<>> /\ r.emotional_patterns.s = <<>> /\ r.facts.l = <<>>)
                /\ calls[i].requests = <<>>
                /\ memory = calls[i].memory

C7_Witness ==
    \E i \in CallsOf("format_memory_summary") :
        /\ WellShaped(calls[i].memory[1])
        /\ calls[i].memory[1].preferences.l = <<>>
        /\ calls[i].memory[1].emotional_patterns.s = <<>>
        /\ Len(calls[i].memory[1].facts.l) >= 2
        /\ calls[i].outcome = "returned"

\* C8: every call of extract_memory, get_standard_response and
\* transform_response issues exactly one request to the provider, for every
\* input and whether the request succeeds or fails.
C8_ExactlyOneRequest ==
    \A i \in CallsOf("extract_memory") \cup CallsOf("get_standard_response")
             \cup CallsOf("transform_response") :
        Len(calls[i].requests) = 1

\* C9: transform_response never raises to its caller, for every personality
\* and every memory argument, in particular every record extract_memory can
\* return.
C9_TransformNeverRaises ==
    \A i \in CallsOf("transform_response") : calls[i].outcome = "returned"

\* C10: for each question the before/after flow handles, the engine is
\* invoked exactly twice, one get_standard_response and one
\* transform_response, and the standard_response given to transform_response
\* is the baseline answer shown as the 'before' response.
C10_OneBaselineSharedByBothSides ==
    user_question # None =>
        /\ Cardinality(CallsOf("get_standard_response")) = 1
        /\ Cardinality(CallsOf("transform_response")) = 1
        /\ \A i \in CallsOf("transform_response") :
             shown_standard = Some(calls[i].standard_response)

\* C11: the stored session memory is None (never extracted, or cleared) or
\* exactly the record the most recent extract_memory call returned: a step
\* that calls extract_memory stores the record it returned, whole, whatever
\* was stored before; every other step leaves the stored record as it is or,
\* clearing the messages, resets it to None.
C11_MemoryReplacedWholesale ==
    [][ IF \E i \in DOMAIN calls' : calls'[i].op = "extract_memory"
        THEN \A i \in DOMAIN calls' :
                 calls'[i].op = "extract_memory" => memory' = calls'[i].record
        ELSE \/ memory' = memory
             \/ memory' = None /\ chat_messages' = <<>> ]_vars

\* An extraction whose record leaves preferences empty is stored as returned.
C11_Witness ==
    \E i \in CallsOf("extract_memory") :
        /\ memory # None
        /\ memory = calls[i].record
        /\ memory[1].preferences.l = <<>>
        /\ Len(memory[1].facts.l) = 2
        /\ calls[i].chat_messages = chat_messages

\* C12: a stored memory was extracted from the chat messages now stored: a
\* step that changes chat_messages (Save Messages, Load Sample Chats, Clear
\* Messages) leaves no record of the earlier messages in the session, so none
\* is passed to transform_response.
C12_MemoryFollowsMessages ==
    [][ chat_messages' # chat_messages =>
            /\ memory' = None
            /\ \A i \in DOMAIN calls' :
                 calls'[i].op = "transform_response" => calls'[i].memory = None ]_vars

====
